---- MODULE Spec2Model ----
(***************************************************************************)
(* The content-removal engine of ereddicator                               *)
(* (src/src/modules/reddit_content_remover.py) and its caller              *)
(* (src/src/main.py), as a state machine.                                  *)
(*                                                                         *)
(* One coordinating thread runs delete_all_content; inside process_batch a *)
(* pool of max_workers threads runs process_item.  A worker's step is one  *)
(* remote call, or one poll of interrupt_flag, with the code between them. *)
(* The remote service answers every call with an outcome the model picks.  *)
(***************************************************************************)
EXTENDS Integers, FiniteSets, Sequences, TLC

\* ---------------------------------------------------------------- bounds
MaxRuns == 2        \* runs of delete_all_content followed in one behaviour
MaxItems == 3       \* item IDs of the larger remote account (InitMulti)
BatchSize == 2      \* items per batch; the code's 50 scaled to the model
MaxTime == 5        \* the second at which the rate limiter's clock stops
MaxDuration == 2    \* longest duration handed to set_rate_limited
MaxSleep == 5       \* longest backoff delay, in twentieths of a second

\* ------------------------------------------------------ program constants
Poll == 2           \* time.sleep(0.1), in twentieths of a second
EditedPause == 16   \* time.sleep(0.8) after a successful edit pass
ErrorPause == 20    \* time.sleep(1) after an unexpected edit error
CooldownPolls == 50 \* range(50) of the cooldown after a batch
max_retries == 5    \* process_item / get_item_info / edit retries
edit_count == 3     \* edit passes of edit_item_multiple_times
max_workers == 2    \* ThreadPoolExecutor(max_workers=2)

Workers == 1..max_workers
Items == 1..MaxItems

\* The threads that call a SharedRateLimiter.
LimiterThreads == 1..2

\* delete_all_content's processing order: the first loop, then the second.
Order == <<"posts", "comments", "saved", "upvotes", "downvotes", "hidden">>
Categories == {Order[k] : k \in 1..Len(Order)}
ContentCats == {"posts", "comments"}
LateCats == {"saved", "upvotes", "downvotes", "hidden"}
FirstLoopLen == 2

\* The three mutually exclusive handling options of the form, and "off".
Modes == {"off", "delete", "only_edit", "delete_without_edit"}

VARIABLES
    preferences,        \* UserPreferences: [dry_run, mode, late]
    listing,            \* remote: category -> the IDs its listing returns
    is_self,            \* remote: ID -> whether a post is a text post
    score,              \* remote: ID -> the item's karma
    subreddit,          \* remote: ID -> display name of the item's subreddit
    body,               \* remote: ID -> a comment's body, a post's title
    processed_ids,      \* the in-memory ledger
    ids_file,           \* the persisted ledger (processed_ids_file)
    interrupt_flag,
    wk,                 \* worker -> its process_item frame
    queue,              \* submitted items no worker has taken yet
    futs,               \* results of the batch's completed futures
    batch,              \* the items of the batch being processed
    collected,          \* items whose future the as_completed loop consumed
    opc,                \* position of the coordinating thread
    ci,                 \* index into Order of the category at hand
    items,              \* delete_all_content's items dict
    remaining,          \* items of the category not yet put in a batch
    total_deleted, total_edited,      \* process_items_in_batches' totals
    deleted_counts, edited_counts,    \* delete_all_content's result
    total_deleted_dict, total_edited_dict,
    runs,               \* runs the behaviour may still start
    faults,             \* failing answers the remote may still give; -1: any number
    issued,             \* history: <<ID, op>> of every remote call issued
    succeeded,          \* history: <<ID, op>> of every call that succeeded
    fetched,            \* history: categories whose listing this run fetched
    finished,           \* history: categories whose batches this run finished
    seen,               \* history: the coordinator has read the flag as set
    batchlog,           \* history: this run's batches, per category
    clean,              \* history: every remote answer of this run was "ok"
    startLedger,        \* history: processed_ids when this run started
    prev,               \* history: the previous run
    limiter,            \* a SharedRateLimiter, the clock and its calling threads
    sleeper             \* one wait of the removal engine and its clock

vars == <<preferences, listing, is_self, score, subreddit, body,
          processed_ids, ids_file, interrupt_flag, batchlog, wk, queue, futs, batch, collected, opc, ci, items, remaining,
          total_deleted, total_edited, deleted_counts, edited_counts,
          total_deleted_dict, total_edited_dict, runs, faults, issued,
          succeeded, fetched, finished, seen, clean, startLedger,
          prev, limiter, sleeper>>

world == <<preferences, listing, is_self, score, subreddit, body>>
coord == <<batchlog, batch, collected, opc, ci, items, remaining, total_deleted,
           total_edited, deleted_counts, edited_counts, total_deleted_dict,
           total_edited_dict, runs, fetched, finished, seen, startLedger, prev>>

\* ------------------------------------------------------------ preferences
delete_without_edit(t) == preferences.mode[t] = "delete_without_edit"

only_edit(t) == preferences.mode[t] = "only_edit"

\* delete_<t> or only_edit_<t> or delete_without_edit_<t>, resp. delete_<t>
Selected(t) ==
    IF t \in ContentCats THEN preferences.mode[t] # "off" ELSE preferences.late[t]

\* str.lower() on a name, a sequence of characters.
lower(s) ==
    [k \in DOMAIN s |->
        CASE s[k] = "A" -> "a"
          [] s[k] = "B" -> "b"
          [] OTHER -> s[k]]

\* UserPreferences.should_process_subreddit.
should_process_subreddit_CaseSensitive(subreddit_name) ==
    IF preferences.whitelist_subreddits # {}
    THEN subreddit_name \notin preferences.whitelist_subreddits
    ELSE IF preferences.blacklist_subreddits # {}
    THEN subreddit_name \in preferences.blacklist_subreddits
    ELSE TRUE

should_process_subreddit(subreddit_name) ==
    IF preferences.whitelist_subreddits # {}
    THEN lower(subreddit_name) \notin preferences.whitelist_subreddits
    ELSE IF preferences.blacklist_subreddits # {}
    THEN lower(subreddit_name) \in preferences.blacklist_subreddits
    ELSE TRUE

\* Whether PRAW hands item i over as a Comment, not a Submission.
IsComment(i) == i \in listing["comments"]

\* s[:n] of a sequence.
Prefix(s, n) == IF Len(s) <= n THEN s ELSE SubSeq(s, 1, n)

\* The text get_item_info builds: the kind, then in quotes the first 25
\* characters of the comment's body or of the post's title, with an
\* ellipsis after a longer one.  A text is a sequence of tokens, each one
\* character but for the two sentinels.
item_info(i) ==
    <<IF IsComment(i) THEN "Comment" ELSE "Post", "'">>
        \o Prefix(body[i], 25)
        \o (IF Len(body[i]) > 25 THEN <<"...">> ELSE <<>>)
        \o <<"'">>

\* str.startswith.
startswith(s, p) == Len(s) >= Len(p) /\ SubSeq(s, 1, Len(p)) = p

\* process_item's first skip rule, on the text of get_item_info.
AlreadyRemoved(i) ==
    \/ startswith(item_info(i), <<"Comment", "'", "[deleted]", "'">>)
    \/ startswith(item_info(i), <<"Comment", "'", "[removed]", "'">>)

\* The karma filter of the live listings: with a threshold set, items whose
\* score is below it are kept.  karma_threshold[t] is {} for None.
ApiKeeps_UpToThreshold(i, t) == \A k \in preferences.karma_threshold[t] : score[i] <= k

ApiKeeps_Inverted(i, t) == \A k \in preferences.karma_threshold[t] : score[i] >= k

ApiKeeps(i, t) == \A k \in preferences.karma_threshold[t] : score[i] < k

\* The karma filter of get_content_from_csv: with a threshold set, a row
\* whose item has a score of at least the threshold is filtered out.
CsvFiltered(i, t) == \E k \in preferences.karma_threshold[t] : score[i] >= k

\* ------------------------------------------------------ process_item frame
Idle == [pc |-> "idle", item |-> 0, item_type |-> "none", attempt |-> 0,
         pass |-> 0, eattempt |-> 0, edited |-> FALSE, d |-> 0, e |-> 0,
         obs |-> FALSE, late |-> FALSE, okTerm |-> FALSE, okEdit |-> FALSE,
         added |-> FALSE, known |-> FALSE, fetchd |-> FALSE, mutd |-> FALSE,
         exc |-> FALSE, tries |-> 0, allApi |-> TRUE, skipSub |-> FALSE,
         http400 |-> FALSE, gone |-> FALSE]
\* obs: the frame has read interrupt_flag as set.  late: it issued a mutation
\* after that.  okTerm / okEdit: its terminal call / an edit call succeeded.
\* added: it added the ID to the ledger.  known: the ID was in the ledger
\* when process_item was called.  fetchd / mutd: it issued the info fetch / a
\* remote mutation call.  exc: process_item raised, so that the future holds
\* the exception in place of a pair of counts.  allApi: every mutation call
\* of the frame was answered by a retryable API error; tries: how many calls
\* that is (0 once allApi is false).  skipSub: the subreddit check skipped
\* the item.  http400: the terminal call was answered by HTTP 400.  gone:
\* an edit call was answered by "Your post isn't accessible.".

Result(r) == [item |-> r.item, item_type |-> r.item_type, d |-> r.d, e |-> r.e,
              obs |-> r.obs, late |-> r.late, okTerm |-> r.okTerm,
              okEdit |-> r.okEdit, added |-> r.added, known |-> r.known,
              fetchd |-> r.fetchd, mutd |-> r.mutd, exc |-> r.exc,
              tries |-> r.tries, allApi |-> r.allApi, skipSub |-> r.skipSub,
              http400 |-> r.http400, gone |-> r.gone]

\* The terminal remote call of a category.
TerminalOp(t) ==
    CASE t \in ContentCats -> "delete"
      [] t = "saved" -> "unsave"
      [] t \in {"upvotes", "downvotes"} -> "clear_vote"
      [] OTHER -> "unhide"

\* edit_item_multiple_times called for link posts as well.
NeedsEdit_LinkToo(t, self) == t \in ContentCats /\ ~delete_without_edit(t)

\* Whether the non-dry-run branch calls edit_item_multiple_times.
NeedsEdit(t, self) ==
    \/ t = "comments" /\ ~delete_without_edit(t)
    \/ t = "posts" /\ self /\ ~delete_without_edit(t)

\* Whether the non-dry-run branch issues the terminal call without editing.
DirectOp(t, self) ==
    \/ t = "comments" /\ delete_without_edit(t)
    \/ t = "posts" /\ self /\ delete_without_edit(t)
    \/ t = "posts" /\ ~self /\ ~only_edit(t)
    \/ t \in LateCats

\* The dry-run branches: what they set.  [d, e, ap]: deleted_count = 1,
\* edited_count = 1, action_performed = True.
DryRunBranch(t, self) ==
    CASE t = "comments" \/ (t = "posts" /\ self) ->
            IF delete_without_edit(t) THEN [d |-> TRUE, e |-> FALSE, ap |-> FALSE]
            ELSE IF only_edit(t) THEN [d |-> FALSE, e |-> TRUE, ap |-> FALSE]
            ELSE [d |-> TRUE, e |-> FALSE, ap |-> FALSE]
      [] t = "posts" /\ ~self ->
            IF ~only_edit(t) THEN [d |-> TRUE, e |-> FALSE, ap |-> TRUE]
            ELSE [d |-> FALSE, e |-> FALSE, ap |-> FALSE]
      [] t \in {"saved", "hidden"} -> [d |-> TRUE, e |-> FALSE, ap |-> TRUE]
      [] OTHER -> [d |-> FALSE, e |-> FALSE, ap |-> FALSE]

\* BranchCalls with the dry-run test missing from the hidden branch.
BranchCalls_HiddenUnguarded(t, self) ==
    (~preferences.dry_run \/ t = "hidden") /\ (NeedsEdit(t, self) \/ DirectOp(t, self))

\* Whether the branch of process_item taken for (t, self) reaches a remote
\* mutation call: never in a dry run.
BranchCalls(t, self) ==
    ~preferences.dry_run /\ (NeedsEdit(t, self) \/ DirectOp(t, self))

\* action_performed after the terminal call succeeded (non-dry-run).
ActionPerformedAfterOp(t, self) ==
    ~(t = "posts" /\ self /\ delete_without_edit(t))

\* action_performed after edit_item_multiple_times returned `result` in
\* only-edit mode.
ActionPerformedAfterEdit(t, result) ==
    IF t = "posts" THEN TRUE ELSE result

\* ---------------------------------------------------------- remote answers
InfoOutcomes == {"ok", "filtered", "skip", "api", "raise"}
EditOutcomes == {"ok", "api", "gone", "err"}
OpOutcomes == {"ok", "api", "http400", "err"}
Failing(o) == o \notin {"ok", "filtered"}

\* The items whose calls fail when the failing answers are counted: the one
\* with the least ID.
Flaky == {i \in Items : \A j \in Items : i <= j}

\* The remote gives answer o to a call on item i: a failing one is taken
\* from the budget, which only the flaky items draw on.
Answer(i, o) ==
    /\ Failing(o) => (faults < 0 \/ (faults > 0 /\ i \in Flaky))
    /\ faults' = IF Failing(o) /\ faults > 0 THEN faults - 1 ELSE faults
    /\ clean' = (clean /\ o = "ok")

\* --------------------------------------------------------- worker plumbing
\* The frame of worker w becomes n; with fin, process_item returns: the
\* future completes with n's counts.  With add, the ID joins the ledger.
Step(w, n, fin, add) ==
    LET m == [n EXCEPT !.added = @ \/ add] IN
    /\ wk' = [wk EXCEPT ![w] = IF fin THEN Idle ELSE m]
    /\ futs' = IF fin THEN futs \cup {Result(m)} ELSE futs
    /\ processed_ids' = IF add THEN processed_ids \cup {n.item} ELSE processed_ids

\* The retry loop going round without counting the attempt.
NextAttempt_NoCount(r) == [r EXCEPT !.pc = "top"]

\* process_item's for-loop moves on to its next attempt.
NextAttempt(r) == [r EXCEPT !.pc = "top", !.attempt = @ + 1]

\* A remote call op on the frame's item is issued, and succeeds when ok.
Call(r, op, ok) ==
    /\ issued' = issued \cup {<<r.item, op>>}
    /\ succeeded' = IF ok THEN succeeded \cup {<<r.item, op>>} ELSE succeeded

NoCall == UNCHANGED <<issued, succeeded, faults, clean>>

\* A mutation call issued by a frame that has seen the flag set is late.
Mutating(r) == [r EXCEPT !.late = @ \/ r.obs, !.mutd = TRUE]

\* The frame after its mutation call was answered by o.
Tried(r, o) ==
    [r EXCEPT !.tries = IF r.allApi /\ o = "api" THEN @ + 1 ELSE 0,
              !.allApi = @ /\ o = "api"]

\* ------------------------------------------------------------ process_item
\* ThreadPoolExecutor: an idle worker takes a submitted item and calls
\* process_item(item, item_type).
Take(w) ==
    /\ wk[w].pc = "idle"
    /\ queue # {}
    /\ \E i \in queue :
          /\ queue' = queue \ {i}
          /\ wk' = [wk EXCEPT ![w] = [Idle EXCEPT !.pc = "info", !.item = i,
                                        !.item_type = Order[ci],
                                        !.known = (i \in processed_ids)]]
    /\ UNCHANGED <<world, limiter, sleeper, coord, processed_ids, ids_file, interrupt_flag, futs,
                   faults, issued, succeeded, clean>>

\* The ledger check left out.
AlreadyProcessed_Never(i) == FALSE

\* The check made against the ledger as it was loaded.
AlreadyProcessed_AsLoaded(i) == i \in startLedger

\* process_item's ledger check.
AlreadyProcessed(i) == i \in processed_ids

\* get_item_info's item._fetch(), then process_item's skip rules: the
\* sentinel, date and subreddit checks on the fetched data ("filtered" is
\* data that fails the date check) and the ledger check.  These checks run
\* outside every try block: "raise" is data on which one of their
\* statements raises, and the exception leaves process_item.
InfoCall(w) ==
    LET r == [wk[w] EXCEPT !.fetchd = TRUE] IN
    /\ r.pc = "info"
    /\ \E o \in InfoOutcomes :
          /\ Answer(r.item, o)
          /\ Call(r, "fetch", o \in {"ok", "filtered", "raise"})
          /\ CASE o = "ok" ->
                    IF AlreadyRemoved(r.item)
                    THEN Step(w, r, TRUE, FALSE)
                    ELSE IF ~should_process_subreddit(subreddit[r.item])
                    THEN Step(w, [r EXCEPT !.skipSub = TRUE], TRUE, FALSE)
                    ELSE IF AlreadyProcessed(r.item)
                    THEN Step(w, r, TRUE, FALSE)
                    ELSE Step(w, [r EXCEPT !.pc = "top", !.attempt = 0], FALSE, FALSE)
               [] o = "api" ->
                    IF r.attempt >= max_retries - 1
                    THEN Step(w, r, TRUE, FALSE)
                    ELSE Step(w, [r EXCEPT !.pc = "infoWait"], FALSE, FALSE)
               [] o = "raise" -> Step(w, [r EXCEPT !.exc = TRUE], TRUE, FALSE)
               [] OTHER -> Step(w, r, TRUE, FALSE)
    /\ UNCHANGED <<world, limiter, sleeper, coord, ids_file, interrupt_flag, queue>>

\* _handle_ratelimit_sleep called by get_item_info: the polled wait.
InfoWait(w) ==
    LET r == wk[w] IN
    /\ r.pc = "infoWait"
    /\ IF interrupt_flag
       THEN Step(w, [r EXCEPT !.obs = TRUE], TRUE, FALSE)
       ELSE Step(w, [r EXCEPT !.pc = "info", !.attempt = @ + 1], FALSE, FALSE)
    /\ NoCall
    /\ UNCHANGED <<world, limiter, sleeper, coord, ids_file, interrupt_flag, queue>>

\* The head of process_item's retry loop and the branch it enters, up to the
\* branch's first remote call.
LoopTop(w) ==
    LET r == wk[w]
        self == is_self[r.item]
        dry == DryRunBranch(r.item_type, self)
        n == [r EXCEPT !.d = IF dry.d THEN 1 ELSE @, !.e = IF dry.e THEN 1 ELSE @]
    IN
    /\ r.pc = "top"
    /\ IF r.attempt >= max_retries THEN Step(w, r, TRUE, FALSE)
       ELSE IF interrupt_flag THEN Step(w, [r EXCEPT !.obs = TRUE], TRUE, FALSE)
       ELSE IF BranchCalls(r.item_type, self) THEN
            IF NeedsEdit(r.item_type, self)
            THEN Step(w, [r EXCEPT !.pc = "edit", !.pass = 0, !.edited = FALSE],
                      FALSE, FALSE)
            ELSE Step(w, [r EXCEPT !.pc = "act"], FALSE, FALSE)
       ELSE IF preferences.dry_run THEN
            IF dry.ap THEN Step(w, n, TRUE, TRUE)
            ELSE Step(w, NextAttempt(n), FALSE, FALSE)
       ELSE Step(w, NextAttempt(r), FALSE, FALSE)
    /\ NoCall
    /\ UNCHANGED <<world, limiter, sleeper, coord, ids_file, interrupt_flag, queue>>

\* edited_count set whatever edit_item_multiple_times returned.
EditedCount_Unguarded(r, result) == 1

\* The only-edit branch: `if self.edit_item_multiple_times(...):
\* edited_count = 1`.
EditedCount(r, result) == IF result THEN 1 ELSE r.e

\* The delete issued whatever edit_item_multiple_times returned.
DeleteAfterEdit_Always(result) == TRUE

\* The edit-then-delete branches: `if self.edit_item_multiple_times(...):
\* item.delete()`.
DeleteAfterEdit(result) == result

\* edit_item_multiple_times has returned `result` to process_item.
EditReturn(w, r, result) ==
    IF only_edit(r.item_type)
    THEN LET n == [r EXCEPT !.e = EditedCount(r, result)] IN
         IF ActionPerformedAfterEdit(r.item_type, result)
         THEN Step(w, n, TRUE, TRUE)
         ELSE Step(w, NextAttempt(n), FALSE, FALSE)
    ELSE IF DeleteAfterEdit(result)
         THEN Step(w, [r EXCEPT !.pc = "act"], FALSE, FALSE)
         ELSE Step(w, NextAttempt(r), FALSE, FALSE)

\* The head of an edit pass: for i in range(edit_count), the flag check.
EditPass(w) ==
    LET r == wk[w] IN
    /\ r.pc = "edit"
    /\ IF r.pass >= edit_count THEN EditReturn(w, r, r.edited)
       ELSE IF interrupt_flag THEN EditReturn(w, [r EXCEPT !.obs = TRUE], r.edited)
       ELSE Step(w, [r EXCEPT !.pc = "editCall", !.eattempt = 0], FALSE, FALSE)
    /\ NoCall
    /\ UNCHANGED <<world, limiter, sleeper, coord, ids_file, interrupt_flag, queue>>

\* item.edit(replacement_text) and the handling of its exceptions.
EditCall(w) ==
    /\ wk[w].pc = "editCall"
    /\ \E o \in EditOutcomes :
          LET r == Tried(Mutating(wk[w]), o) IN
          /\ Answer(r.item, o)
          /\ Call(r, "edit", o = "ok")
          /\ CASE o = "ok" ->
                    Step(w, [r EXCEPT !.pc = "edit", !.pass = @ + 1,
                                      !.edited = TRUE, !.okEdit = TRUE], FALSE, FALSE)
               [] o = "gone" -> EditReturn(w, [r EXCEPT !.gone = TRUE], FALSE)
               [] o = "api" ->
                    IF r.eattempt >= max_retries - 1
                    THEN EditReturn(w, r, r.edited)
                    ELSE Step(w, [r EXCEPT !.pc = "editWait"], FALSE, FALSE)
               [] OTHER ->
                    IF r.eattempt < max_retries - 1
                    THEN Step(w, [r EXCEPT !.eattempt = @ + 1], FALSE, FALSE)
                    ELSE EditReturn(w, r, r.edited)
    /\ UNCHANGED <<world, limiter, sleeper, coord, ids_file, interrupt_flag, queue>>

\* _handle_ratelimit_sleep called by edit_item_multiple_times.
EditWait(w) ==
    LET r == wk[w] IN
    /\ r.pc = "editWait"
    /\ IF interrupt_flag THEN EditReturn(w, [r EXCEPT !.obs = TRUE], r.edited)
       ELSE Step(w, [r EXCEPT !.pc = "editCall", !.eattempt = @ + 1], FALSE, FALSE)
    /\ NoCall
    /\ UNCHANGED <<world, limiter, sleeper, coord, ids_file, interrupt_flag, queue>>

\* The except clause's test for a ResponseException with status 400:
\* `return (deleted_count, edited_count)`, with deleted_count as it stands;
\* the terminal call raised before the assignment that follows it.
CountAfter400(r) == r.d

\* The terminal call (delete / unsave / clear_vote / unhide), the
\* action_performed block and the except clauses of process_item.
ActCall(w) ==
    /\ wk[w].pc = "act"
    /\ \E o \in OpOutcomes :
          LET r == Tried(Mutating(wk[w]), o)
              self == is_self[r.item]
          IN
          /\ Answer(r.item, o)
          /\ Call(r, TerminalOp(r.item_type), o = "ok")
          /\ CASE o = "ok" ->
                    LET n == [r EXCEPT !.d = 1, !.okTerm = TRUE] IN
                    IF ActionPerformedAfterOp(r.item_type, self)
                    THEN Step(w, n, TRUE, TRUE)
                    ELSE Step(w, NextAttempt(n), FALSE, FALSE)
               [] o = "api" ->
                    IF r.attempt >= max_retries - 1
                    THEN Step(w, r, TRUE, FALSE)
                    ELSE Step(w, [r EXCEPT !.pc = "wait"], FALSE, FALSE)
               [] o = "http400" ->
                    Step(w, [r EXCEPT !.d = CountAfter400(r), !.http400 = TRUE],
                         TRUE, FALSE)
               [] OTHER -> Step(w, r, TRUE, FALSE)
    /\ UNCHANGED <<world, limiter, sleeper, coord, ids_file, interrupt_flag, queue>>

\* _handle_ratelimit_sleep called by process_item.
Wait(w) ==
    LET r == wk[w] IN
    /\ r.pc = "wait"
    /\ IF interrupt_flag THEN Step(w, [r EXCEPT !.obs = TRUE], TRUE, FALSE)
       ELSE Step(w, NextAttempt(r), FALSE, FALSE)
    /\ NoCall
    /\ UNCHANGED <<world, limiter, sleeper, coord, ids_file, interrupt_flag, queue>>

\* ------------------------------------------------------ coordinating thread
wkr == <<wk, queue, futs, faults, issued, succeeded, clean>>

\* No batch yet.
NoBatches ==
    [times |-> [c \in Categories |-> [i \in Items |-> 0]],
     sizes |-> [c \in Categories |-> <<>>]]

ZeroCounts == [c \in Categories |-> 0]
ZeroEdited == [c \in ContentCats |-> 0]
NoItems == [c \in Categories |-> {}]
NoPrev == [run |-> 0, dry |-> FALSE, clean |-> FALSE, cancelled |-> FALSE,
           start |-> {}, deleted |-> ZeroCounts, edited |-> ZeroEdited]

\* The run that has just ended, as the next run's history.
LastRun == [run |-> prev.run + 1, dry |-> preferences.dry_run, clean |-> clean,
            cancelled |-> interrupt_flag, start |-> startLedger,
            deleted |-> deleted_counts, edited |-> edited_counts]

AllIdle == \A w \in Workers : wk[w].pc = "idle"

\* run_content_remover's while loop calls delete_all_content, which resets
\* its counts and its items dict.
StartRun ==
    /\ opc \in {"begin", "again"}
    /\ runs > 0
    /\ runs' = runs - 1
    /\ deleted_counts' = ZeroCounts
    /\ edited_counts' = ZeroEdited
    /\ items' = NoItems
    /\ fetched' = {}
    /\ finished' = {}
    /\ seen' = FALSE
    /\ batchlog' = NoBatches
    /\ clean' = TRUE
    /\ startLedger' = processed_ids
    /\ prev' = IF opc = "again" THEN LastRun ELSE prev
    /\ opc' = "fetch"
    /\ issued' = {}
    /\ succeeded' = {}
    /\ UNCHANGED <<world, limiter, sleeper, processed_ids, ids_file, interrupt_flag, wk, queue, futs,
                   batch, collected, ci, remaining, total_deleted, total_edited,
                   total_deleted_dict, total_edited_dict, faults>>

\* What get_content_from_csv loads of category t: every row of the export
\* file that is not filtered out, and nothing once the flag is set.
FromCsv(t) ==
    IF interrupt_flag THEN {} ELSE {i \in listing[t] : ~CsvFiltered(i, t)}

SortTypes == {"controversial", "top", "new", "hot"}

\* The listing of category t in sort order s: every sort order shows all
\* the items of the category.
Sorted(t, s) == listing[t]

\* What the four sorted live listings of category t leave after the filter:
\* set.update adds each filtered listing to the set, which holds an ID once.
FromApi(t) == UNION {{i \in Sorted(t, s) : ApiKeeps(i, t)} : s \in SortTypes}

\* The comments and posts of the selected categories are loaded, from the
\* export files when an export directory is set, else from the listings.
FetchContent ==
    /\ opc = "fetch"
    /\ items' = [c \in Categories |->
                    IF c \in ContentCats /\ Selected(c)
                    THEN IF preferences.reddit_export_directory
                         THEN FromCsv(c) ELSE FromApi(c)
                    ELSE {}]
    /\ fetched' = IF preferences.reddit_export_directory /\ interrupt_flag
                  THEN {} ELSE {c \in ContentCats : Selected(c)}
    /\ ci' = 1
    /\ opc' = "loop1"
    /\ UNCHANGED <<world, limiter, sleeper, batchlog, wkr, processed_ids, ids_file, interrupt_flag, batch,
                   collected, remaining, total_deleted, total_edited,
                   deleted_counts, edited_counts, total_deleted_dict,
                   total_edited_dict, runs, finished, seen, startLedger, prev>>

\* Whether index k lies past the end of the loop the coordinator is in.
PastLoop(k) == IF opc = "loop1" THEN k > FirstLoopLen ELSE k > Len(Order)

AfterLoop == IF opc = "loop1" THEN "fetchLate" ELSE "finally"

\* The head of either for-loop over item types: the interrupt check, the
\* preference check, and the call of process_items_in_batches.
LoopHead ==
    /\ opc \in {"loop1", "loop2"}
    /\ IF PastLoop(ci) \/ interrupt_flag
       THEN /\ opc' = AfterLoop
            /\ UNCHANGED <<ci, remaining, total_deleted, total_edited>>
       ELSE IF Selected(Order[ci])
       THEN /\ remaining' = items[Order[ci]]
            /\ total_deleted' = 0
            /\ total_edited' = 0
            /\ opc' = "batch"
            /\ UNCHANGED ci
       ELSE /\ ci' = ci + 1
            /\ UNCHANGED <<opc, remaining, total_deleted, total_edited>>
    /\ seen' = (seen \/ (~PastLoop(ci) /\ interrupt_flag))
    /\ UNCHANGED <<world, limiter, sleeper, batchlog, wkr, processed_ids, ids_file, interrupt_flag, batch,
                   collected, items, deleted_counts, edited_counts,
                   total_deleted_dict, total_edited_dict, runs, fetched, finished,
                   startLedger, prev>>

\* The loop a category's batches return to.
LoopOf(k) == IF k <= FirstLoopLen THEN "loop1" ELSE "loop2"

\* One batch holding everything that is left.
BatchLen_Whole(n, size) == n

\* The length of the next batch when n items are left: the for-loop hands
\* a batch over as soon as it holds `size` items, and what is left over
\* after the loop is the last batch.
BatchLen(n, size) == IF n >= size THEN size ELSE n

\* The batches process_items_in_batches can cut off next.
BatchOf(rest) ==
    {b \in SUBSET rest : Cardinality(b) = BatchLen(Cardinality(rest), BatchSize)}

\* The batch list kept after a batch, so that its last item is handed over
\* again.
AfterBatch_KeepsOne(rest, b) == rest \ (b \ {CHOOSE i \in b : TRUE})

\* What is left to iterate over after batch b: `batch = []`.
AfterBatch(rest, b) == rest \ b

\* The lengths of the batches process_items_in_batches makes of n items.
RECURSIVE BatchSizes(_, _)
BatchSizes(n, size) ==
    IF n = 0 THEN <<>>
    ELSE <<BatchLen(n, size)>> \o BatchSizes(n - BatchLen(n, size), size)

\* The log after batch b of category c was handed to process_batch.
Logged(c, b) ==
    [times |-> [batchlog.times EXCEPT ![c] =
                   [i \in Items |-> IF i \in b THEN @[i] + 1 ELSE @[i]]],
     sizes |-> [batchlog.sizes EXCEPT ![c] = Append(@, Cardinality(b))]]

\* process_items_in_batches: the next batch is cut off and process_batch
\* submits every item of it to a fresh pool; with nothing left the totals
\* return to delete_all_content, which adds them to its counts (the second
\* loop drops the edited count).
NextBatch ==
    /\ opc = "batch"
    /\ IF remaining = {}
       THEN /\ deleted_counts' = [deleted_counts EXCEPT ![Order[ci]] = @ + total_deleted]
            /\ edited_counts' =
                  IF Order[ci] \in ContentCats
                  THEN [edited_counts EXCEPT ![Order[ci]] = @ + total_edited]
                  ELSE edited_counts
            /\ finished' = finished \cup {Order[ci]}
            /\ opc' = LoopOf(ci)
            /\ ci' = ci + 1
            /\ UNCHANGED <<remaining, batch, queue, futs, collected, batchlog>>
       ELSE /\ \E b \in BatchOf(remaining) :
                  /\ batch' = b
                  /\ queue' = b
                  /\ remaining' = AfterBatch(remaining, b)
                  /\ batchlog' = Logged(Order[ci], b)
            /\ futs' = {}
            /\ collected' = {}
            /\ opc' = "collect"
            /\ UNCHANGED <<deleted_counts, edited_counts, ci, finished>>
    /\ UNCHANGED <<world, limiter, sleeper, processed_ids, ids_file, interrupt_flag, wk, items,
                   total_deleted, total_edited, total_deleted_dict,
                   total_edited_dict, runs, fetched, seen, startLedger, prev,
                   faults, issued, succeeded, clean>>

\* The cooldown entered without the save.
AfterLastFuture_NoSave == "cooldown"

\* process_batch after its with-block: the progress report, then
\* save_processed_ids, then the cooldown.
AfterLastFuture == "save"

\* One round of process_batch's as_completed loop: a completed future is
\* yielded; with the flag set the loop returns, else future.result() gives
\* its counts, which are added, or raises the exception it holds.
Collect ==
    /\ opc = "collect"
    /\ \E f \in futs :
          /\ f.item \notin collected
          /\ IF interrupt_flag
             THEN /\ opc' = "drain"
                  /\ UNCHANGED <<collected, total_deleted, total_edited>>
             ELSE IF f.exc
             THEN /\ opc' = "drainRaise"
                  /\ UNCHANGED <<collected, total_deleted, total_edited>>
             ELSE /\ total_deleted' = total_deleted + f.d
                  /\ total_edited' = total_edited + f.e
                  /\ collected' = collected \cup {f.item}
                  /\ opc' = IF collected' = batch THEN AfterLastFuture ELSE "collect"
    /\ seen' = (seen \/ interrupt_flag)
    /\ UNCHANGED <<world, limiter, sleeper, batchlog, wkr, processed_ids, ids_file, interrupt_flag, batch, ci,
                   items, remaining, deleted_counts, edited_counts,
                   total_deleted_dict, total_edited_dict, runs, fetched, finished,
                   startLedger, prev>>

\* An exception is on its way from process_batch to run_content_remover.
Propagating == opc \in {"drainRaise", "finallyRaise"}

\* ThreadPoolExecutor.__exit__ is shutdown(wait=True): every submitted item
\* has run and every worker thread has ended.
Joined_NoWait == TRUE

\* The exit waiting for the queue to empty, not for the running items.
Joined_QueueOnly == queue = {}

Joined == queue = {} /\ AllIdle

\* The with-block is left by a return or by an exception:
\* ThreadPoolExecutor.__exit__ joins the workers, which first run every
\* submitted item.  An exception then leaves process_items_in_batches and
\* the try block of delete_all_content.
Drain ==
    /\ opc \in {"drain", "drainRaise"}
    /\ Joined
    /\ opc' = IF Propagating THEN "finallyRaise" ELSE "batch"
    /\ batch' = {}
    /\ futs' = {}
    /\ collected' = {}
    /\ UNCHANGED <<world, limiter, sleeper, batchlog, processed_ids, ids_file, interrupt_flag, wk, queue, ci,
                   items, remaining, total_deleted, total_edited, deleted_counts,
                   edited_counts, total_deleted_dict, total_edited_dict, runs,
                   fetched, finished, seen, startLedger, prev, faults, issued, succeeded, clean>>

\* The file left as it is.
save_processed_ids_Skipped == ids_file

\* save_processed_ids: the file is opened for writing and every ID of
\* processed_ids written to it; the result is the file's new content.
save_processed_ids == processed_ids

\* save_processed_ids after a batch whose futures were all consumed.
SaveAfterBatch ==
    /\ opc = "save"
    /\ ids_file' = save_processed_ids
    /\ opc' = "cooldown"
    /\ UNCHANGED <<world, limiter, sleeper, batchlog, wkr, processed_ids, interrupt_flag, batch, collected, ci,
                   items, remaining, total_deleted, total_edited, deleted_counts,
                   edited_counts, total_deleted_dict, total_edited_dict, runs,
                   fetched, finished, seen, startLedger, prev>>

\* The polled five-second pause, which the flag cuts short; it returns the
\* totals either way.
Cooldown ==
    /\ opc = "cooldown"
    /\ opc' = "batch"
    /\ batch' = {}
    /\ futs' = {}
    /\ collected' = {}
    /\ seen' = (seen \/ interrupt_flag)
    /\ UNCHANGED <<world, limiter, sleeper, batchlog, processed_ids, ids_file, interrupt_flag, wk, queue, ci,
                   items, remaining, total_deleted, total_edited, deleted_counts,
                   edited_counts, total_deleted_dict, total_edited_dict, runs,
                   fetched, finished, startLedger, prev, faults, issued, succeeded, clean>>

\* The saved, upvoted, downvoted and hidden listings are fetched.
FetchLate ==
    /\ opc = "fetchLate"
    /\ items' = [c \in Categories |->
                    IF c \in LateCats /\ Selected(c) THEN listing[c] ELSE items[c]]
    /\ fetched' = fetched \cup {c \in LateCats : Selected(c)}
    /\ ci' = FirstLoopLen + 1
    /\ opc' = "loop2"
    /\ UNCHANGED <<world, limiter, sleeper, batchlog, wkr, processed_ids, ids_file, interrupt_flag, batch,
                   collected, remaining, total_deleted, total_edited,
                   deleted_counts, edited_counts, total_deleted_dict,
                   total_edited_dict, runs, finished, seen, startLedger, prev>>

\* delete_all_content's finally block, and its return; an exception goes on
\* to run_content_remover, whose except clause ends the runs.
Finally ==
    /\ opc \in {"finally", "finallyRaise"}
    /\ total_deleted_dict' = [c \in Categories |-> total_deleted_dict[c] + deleted_counts[c]]
    /\ total_edited_dict' = [c \in ContentCats |-> total_edited_dict[c] + edited_counts[c]]
    /\ ids_file' = save_processed_ids
    /\ opc' = IF Propagating THEN "exit" ELSE "returned"
    /\ UNCHANGED <<world, limiter, sleeper, batchlog, wkr, processed_ids, interrupt_flag, batch, collected, ci,
                   items, remaining, total_deleted, total_edited, deleted_counts,
                   edited_counts, runs, fetched, finished, seen, startLedger, prev>>

\* run_content_remover after a run: stop when interrupted or when no
\* deleted count is non-zero, else pause before the next run.
CallerCheck ==
    /\ opc = "returned"
    /\ opc' = IF interrupt_flag \/ (\A c \in Categories : deleted_counts[c] = 0)
              THEN "exit" ELSE "pause"
    /\ UNCHANGED <<world, limiter, sleeper, batchlog, wkr, processed_ids, ids_file, interrupt_flag, batch,
                   collected, ci, items, remaining, total_deleted, total_edited,
                   deleted_counts, edited_counts, total_deleted_dict,
                   total_edited_dict, runs, fetched, finished, seen, startLedger, prev>>

\* The polled seven-second pause between two runs.
CallerPause ==
    /\ opc = "pause"
    /\ opc' = IF interrupt_flag THEN "exit" ELSE "again"
    /\ UNCHANGED <<world, limiter, sleeper, batchlog, wkr, processed_ids, ids_file, interrupt_flag, batch,
                   collected, ci, items, remaining, total_deleted, total_edited,
                   deleted_counts, edited_counts, total_deleted_dict,
                   total_edited_dict, runs, fetched, finished, seen, startLedger, prev>>

\* The program is started again: a new RedditContentRemover loads the
\* ledger from its file; the form may have dry run ticked or not.
Restart ==
    /\ opc = "exit"
    /\ processed_ids' = ids_file
    /\ interrupt_flag' = FALSE
    /\ total_deleted_dict' = ZeroCounts
    /\ total_edited_dict' = ZeroEdited
    /\ \E dr \in BOOLEAN : preferences' = [preferences EXCEPT !.dry_run = dr]
    /\ prev' = LastRun
    /\ startLedger' = ids_file
    /\ issued' = {}
    /\ succeeded' = {}
    /\ opc' = "begin"
    /\ fetched' = {}
    /\ finished' = {}
    /\ seen' = FALSE
    /\ batchlog' = NoBatches
    /\ UNCHANGED <<listing, is_self, score, subreddit, body, limiter, sleeper, wk, queue, futs, faults, clean, ids_file,
                   batch, collected, ci, items, remaining, total_deleted,
                   total_edited, deleted_counts, edited_counts, runs>>

\* The signal handler sets the flag.
Interrupt ==
    /\ opc \notin {"exit"}
    /\ ~interrupt_flag
    /\ interrupt_flag' = TRUE
    /\ UNCHANGED <<world, limiter, sleeper, wkr, coord, processed_ids, ids_file>>

Worker(w) ==
    \/ Take(w) \/ InfoCall(w) \/ InfoWait(w) \/ LoopTop(w) \/ EditPass(w)
    \/ EditCall(w) \/ EditWait(w) \/ ActCall(w) \/ Wait(w)

Next ==
    \/ StartRun \/ FetchContent \/ LoopHead \/ NextBatch \/ Collect \/ Drain
    \/ SaveAfterBatch \/ Cooldown \/ FetchLate \/ Finally \/ CallerCheck
    \/ CallerPause \/ Restart \/ Interrupt
    \/ \E w \in Workers : Worker(w)

\* ------------------------------------------------------ SharedRateLimiter
\* The statements a method runs while it holds self.lock are one step; the
\* clock, time.time(), is limiter.now, in whole seconds.
main == <<world, wkr, coord, processed_ids, ids_file, interrupt_flag>>

\* SharedRateLimiter.__init__(default_delay), and the threads that share it.
NewLimiter ==
    /\ ~limiter.made
    /\ \E d \in 0..1 :
          limiter' = [limiter EXCEPT
                        !.made = TRUE, !.default_delay = d,
                        !.last_request_time = 0, !.rate_limited_until = 0,
                        !.th = [t \in LimiterThreads |->
                                   [pc |-> "idle", wake |-> 0, early |-> FALSE]]]
    /\ UNCHANGED <<main, sleeper>>

\* A second passes.
Tick ==
    /\ limiter.made
    /\ limiter.now < MaxTime
    /\ limiter' = [limiter EXCEPT !.now = @ + 1]
    /\ UNCHANGED <<main, sleeper>>

\* set_rate_limited(duration) called by thread t: the limit is only ever
\* extended.
set_rate_limited(t) ==
    /\ limiter.th[t].pc = "idle"
    /\ \E duration \in 1..MaxDuration :
          LET rate_limit_until == limiter.now + duration IN
          limiter' = [limiter EXCEPT
                        !.rate_limited_until =
                            IF rate_limit_until > @ THEN rate_limit_until ELSE @]
    /\ UNCHANGED <<main, sleeper>>

\* wait_time as wait_if_needed computes it at current_time.
wait_time(current_time) ==
    IF current_time < limiter.rate_limited_until
    THEN limiter.rate_limited_until - current_time
    ELSE LET time_since_last == current_time - limiter.last_request_time IN
         IF time_since_last < limiter.default_delay
         THEN limiter.default_delay - time_since_last
         ELSE 0

\* What a returning wait_if_needed leaves behind: last_request_time is set
\* and thread t goes on; early records whether the limit still lay ahead at
\* that moment.
Returned(t) ==
    [limiter EXCEPT !.last_request_time = limiter.now,
                    !.prev = {limiter.now},
                    !.close = @ \/ \E p \in limiter.prev :
                                      limiter.now - p < limiter.default_delay,
                    !.th[t] = [pc |-> "idle", wake |-> 0,
                               early |-> limiter.now < limiter.rate_limited_until]]

\* wait_if_needed called by thread t, up to its return or to the release of
\* the lock before time.sleep(wait_time).
wait_if_needed(t) ==
    /\ limiter.th[t].pc = "idle"
    /\ limiter' =
          IF wait_time(limiter.now) > 0
          THEN [limiter EXCEPT !.th[t] = [pc |-> "sleep",
                                          wake |-> limiter.now + wait_time(limiter.now),
                                          early |-> FALSE]]
          ELSE Returned(t)
    /\ UNCHANGED <<main, sleeper>>

\* time.sleep(wait_time) is over, at its time or later: thread t takes the
\* lock again, sets last_request_time and returns.
wait_if_needed_wakes(t) ==
    /\ limiter.th[t].pc = "sleep"
    /\ limiter.now >= limiter.th[t].wake
    /\ limiter' = Returned(t)
    /\ UNCHANGED <<main, sleeper>>

NextLimiter ==
    \/ NewLimiter
    \/ Tick
    \/ \E t \in LimiterThreads : set_rate_limited(t)
    \/ \E t \in LimiterThreads : wait_if_needed(t)
    \/ \E t \in LimiterThreads : wait_if_needed_wakes(t)

\* ------------------------------------------------------------------- waits
\* One wait of the removal engine against the clock sleeper.now; the flag
\* may be set at any moment of it.
Min(a, b) == IF a <= b THEN a ELSE b

\* The rest of the delay slept in one go.
PollSleep_Whole(togo) == togo

\* min(0.1, max(0, sleep_until - time.time())), with time left.
PollSleep(togo) == Min(Poll, togo)

\* time.sleep(n) is called.
Asleep(kind, n, rest) ==
    [rest EXCEPT !.pc = "asleep", !.kind = kind, !.wake = sleeper.now + n, !.nap = n]

\* The wait is over.
Done(kind, ret, rest) ==
    [rest EXCEPT !.pc = "done", !.kind = kind, !.flagged = interrupt_flag, !.ret = ret]

\* _handle_ratelimit_sleep past its attempt test: sleep_until is set.
BackoffStart ==
    /\ sleeper.pc = "out"
    /\ \E sleep_time \in 1..MaxSleep :
          sleeper' = [sleeper EXCEPT !.pc = "poll", !.kind = "backoff",
                                     !.sleep_until = sleeper.now + sleep_time]
    /\ UNCHANGED <<main, limiter>>

\* One round of its loop: while time.time() < sleep_until, the flag test,
\* time.sleep(min(0.1, sleep_until - time.time())); after the loop it
\* returns True.
BackoffPoll ==
    /\ sleeper.pc = "poll" /\ sleeper.kind = "backoff"
    /\ sleeper' =
          IF sleeper.now >= sleeper.sleep_until THEN Done("backoff", TRUE, sleeper)
          ELSE IF interrupt_flag THEN Done("backoff", FALSE, sleeper)
          ELSE Asleep("backoff", PollSleep(sleeper.sleep_until - sleeper.now), sleeper)
    /\ UNCHANGED <<main, limiter>>

\* process_batch's cooldown begins.
CooldownStart ==
    /\ sleeper.pc = "out"
    /\ sleeper' = [sleeper EXCEPT !.pc = "poll", !.kind = "cooldown",
                                  !.left = CooldownPolls]
    /\ UNCHANGED <<main, limiter>>

\* One round of `for _ in range(50)`: the flag test, time.sleep(0.1).
CooldownPoll ==
    /\ sleeper.pc = "poll" /\ sleeper.kind = "cooldown"
    /\ sleeper' =
          IF sleeper.left = 0 \/ interrupt_flag THEN Done("cooldown", FALSE, sleeper)
          ELSE Asleep("cooldown", Poll, [sleeper EXCEPT !.left = @ - 1])
    /\ UNCHANGED <<main, limiter>>

\* edit_item_multiple_times after a successful pass: time.sleep(0.8).
EditedSleep ==
    /\ sleeper.pc = "out"
    /\ sleeper' = Asleep("edited", EditedPause, sleeper)
    /\ UNCHANGED <<main, limiter>>

\* edit_item_multiple_times after an unexpected error: time.sleep(1).
ErrorSleep ==
    /\ sleeper.pc = "out"
    /\ sleeper' = Asleep("error", ErrorPause, sleeper)
    /\ UNCHANGED <<main, limiter>>

\* A twentieth of a second of a time.sleep call passes.
SleepTick ==
    /\ sleeper.pc = "asleep"
    /\ sleeper.now < sleeper.wake
    /\ sleeper' = [sleeper EXCEPT !.now = @ + 1,
                                  !.late = IF interrupt_flag THEN @ + 1 ELSE @]
    /\ UNCHANGED <<main, limiter>>

\* The time.sleep call returns: to the loop that polls, or the wait is over.
SleepOver ==
    /\ sleeper.pc = "asleep"
    /\ sleeper.now >= sleeper.wake
    /\ sleeper' =
          IF sleeper.kind \in {"backoff", "cooldown"}
          THEN [sleeper EXCEPT !.pc = "poll"]
          ELSE Done(sleeper.kind, FALSE, sleeper)
    /\ UNCHANGED <<main, limiter>>

NextWait ==
    \/ BackoffStart \/ BackoffPoll \/ CooldownStart \/ CooldownPoll
    \/ EditedSleep \/ ErrorSleep \/ SleepTick \/ SleepOver
    \/ Interrupt

\* ------------------------------------------------------------ initial states
TypeMode(t, m) == [c \in ContentCats |-> IF c = t THEN m ELSE "off"]
OnlyLate(t) == [c \in LateCats |-> c = t]

\* The preferences the form hands over: f holds the export directory
\* choice, the two karma thresholds and the two subreddit lists.
Prefs(dr, mode, late, f) ==
    [dry_run |-> dr, mode |-> mode, late |-> late,
     reddit_export_directory |-> f.reddit_export_directory,
     karma_threshold |-> f.karma_threshold,
     whitelist_subreddits |-> f.whitelist_subreddits,
     blacklist_subreddits |-> f.blacklist_subreddits]

\* The form left as it opens: no export directory, "*" for both thresholds,
\* both subreddit lists blank.
NoFilters ==
    [reddit_export_directory |-> FALSE,
     karma_threshold |-> [c \in ContentCats |-> {}],
     whitelist_subreddits |-> {}, blacklist_subreddits |-> {}]

\* Every item has karma 1, is in the same subreddit and has an ordinary
\* text.
NoKarma ==
    /\ score = [i \in Items |-> 1]
    /\ subreddit = [i \in Items |-> <<"a", "b">>]
    /\ body = [i \in Items |-> <<"x">>]

\* No SharedRateLimiter constructed: nothing in the program constructs one.
\* The clock is past the epoch, the 0.0 of last_request_time.
NoLimiter ==
    [made |-> FALSE, now |-> 1, default_delay |-> 0, last_request_time |-> 0,
     rate_limited_until |-> 0, prev |-> {}, close |-> FALSE,
     th |-> [t \in LimiterThreads |-> [pc |-> "out", wake |-> 0, early |-> FALSE]]]
\* prev: the time of the latest return of wait_if_needed, if any.  close: a
\* return came less than default_delay after the one before it.

\* No wait begun; the clock counts twentieths of a second.
NoWait ==
    [pc |-> "out", kind |-> "none", now |-> 0, sleep_until |-> 0, left |-> 0,
     wake |-> 0, nap |-> 0, late |-> 0, flagged |-> FALSE, ret |-> FALSE]
\* sleep_until: the backoff's deadline.  left: the cooldown's polls to go.
\* wake, nap: the end and the length of the time.sleep call under way.
\* late: the time the wait has gone on with the flag set.  flagged: the flag
\* was set when the wait ended.  ret: what _handle_ratelimit_sleep returned.

InitRest ==
    /\ processed_ids = ids_file
    /\ interrupt_flag = FALSE
    /\ wk = [w \in Workers |-> Idle]
    /\ queue = {}
    /\ futs = {}
    /\ batch = {}
    /\ collected = {}
    /\ opc = "begin"
    /\ ci = 1
    /\ items = NoItems
    /\ remaining = {}
    /\ total_deleted = 0
    /\ total_edited = 0
    /\ deleted_counts = ZeroCounts
    /\ edited_counts = ZeroEdited
    /\ total_deleted_dict = ZeroCounts
    /\ total_edited_dict = ZeroEdited
    /\ issued = {}
    /\ succeeded = {}
    /\ fetched = {}
    /\ finished = {}
    /\ seen = FALSE
    /\ batchlog = NoBatches
    /\ clean = TRUE
    /\ startLedger = ids_file
    /\ prev = NoPrev
    /\ limiter = NoLimiter
    /\ sleeper = NoWait

\* One item, ID 1, listed in one category, which alone is selected; the
\* remote may fail any call any number of times.
Init ==
    /\ \E t \in Categories, dr \in BOOLEAN :
          /\ listing = [c \in Categories |-> IF c = t THEN {1} ELSE {}]
          /\ \E m \in (IF t \in ContentCats THEN Modes \ {"off"} ELSE {"off"}) :
                preferences = Prefs(dr, TypeMode(t, m), OnlyLate(t), NoFilters)
          /\ \E s \in (IF t = "posts" THEN BOOLEAN ELSE {FALSE}) :
                is_self = [i \in Items |-> s]
    /\ NoKarma
    /\ ids_file \in {{}, {1}}
    /\ runs = MaxRuns
    /\ faults = -1
    /\ InitRest

Spec == Init /\ [][Next]_vars

\* A larger account, one run: posts 1..np and comments np+1..MaxItems, odd
\* IDs text posts; the item with the least ID is also saved and the one with
\* the greatest ID also upvoted.  Selected posts are edited then
\* deleted and selected comments deleted without edit; the four other
\* categories are selected together or not at all, and the remote fails one
\* call at most.
LateListing(c) ==
    CASE c = "saved" -> Flaky
      [] c = "upvotes" -> {i \in Items : \A j \in Items : i >= j}
      [] OTHER -> {}

LateChoices == {{}, LateCats}

ModeMulti(c) == IF c = "posts" THEN "delete" ELSE "delete_without_edit"

InitMulti ==
    /\ \E np \in 1..MaxItems :
          listing = [c \in Categories |->
                        CASE c = "posts" -> 1..np
                          [] c = "comments" -> (np + 1)..MaxItems
                          [] OTHER -> LateListing(c)]
    /\ \E dr \in BOOLEAN, on \in SUBSET ContentCats, lt \in LateChoices :
          preferences = Prefs(dr, [c \in ContentCats |->
                                      IF c \in on THEN ModeMulti(c) ELSE "off"],
                              [c \in LateCats |-> c \in lt], NoFilters)
    /\ is_self = [i \in Items |-> i % 2 = 1]
    /\ NoKarma
    /\ ids_file = {}
    /\ runs = 1
    /\ faults = 1
    /\ InitRest

SpecMulti == InitMulti /\ [][Next]_vars

\* The rate limiter on its own: no account, nothing selected, no run.
InitLimiter ==
    /\ listing = [c \in Categories |-> {}]
    /\ preferences = Prefs(FALSE, [c \in ContentCats |-> "off"],
                           [c \in LateCats |-> FALSE], NoFilters)
    /\ is_self = [i \in Items |-> FALSE]
    /\ NoKarma
    /\ ids_file = {}
    /\ runs = 0
    /\ faults = 0
    /\ InitRest

SpecLimiter == InitLimiter /\ [][NextLimiter]_vars

\* A wait on its own: no account, nothing selected, the run not yet begun.
InitWait == InitLimiter

SpecWait == InitWait /\ [][NextWait]_vars

\* The form's subreddit boxes: the comma-separated entries are lowercased.
SubredditList(typed) == {lower(n) : n \in typed}

Scores == {5, 10, 15}
ThresholdChoices == {{}, {10}}
TypedChoices == {{}, {<<"a", "B">>}, {<<"B", "a">>}}

\* An account with filters, one run: post 1 in r/Ab and comment 2 in r/bA,
\* each with any of three scores; the form has any export choice, "*" or 10
\* as each threshold, and one of its subreddit boxes filled in or none, but
\* never both, which it rejects.
InitFilter ==
    /\ listing = [c \in Categories |->
                     CASE c = "posts" -> {1}
                       [] c = "comments" -> {2}
                       [] OTHER -> {}]
    /\ \E ex \in BOOLEAN, tp \in ThresholdChoices, tc \in ThresholdChoices,
          white \in BOOLEAN, typed \in TypedChoices :
          preferences =
              Prefs(FALSE, [c \in ContentCats |-> ModeMulti(c)],
                    [c \in LateCats |-> FALSE],
                    [reddit_export_directory |-> ex,
                     karma_threshold |-> [c \in ContentCats |->
                                            IF c = "posts" THEN tp ELSE tc],
                     whitelist_subreddits |->
                         IF white THEN SubredditList(typed) ELSE {},
                     blacklist_subreddits |->
                         IF white THEN {} ELSE SubredditList(typed)])
    /\ is_self = [i \in Items |-> i % 2 = 1]
    /\ \E sp \in Scores, sc \in Scores :
          score = [i \in Items |-> IF i % 2 = 1 THEN sp ELSE sc]
    /\ subreddit = [i \in Items |->
                       IF i % 2 = 1 THEN <<"A", "b">> ELSE <<"b", "A">>]
    /\ body = [i \in Items |-> <<"x">>]
    /\ ids_file = {}
    /\ runs = 1
    /\ faults = 1
    /\ InitRest

SpecFilter == InitFilter /\ [][Next]_vars

ModeLive(c) == IF c = "comments" THEN "only_edit" ELSE "delete_without_edit"

\* Two items, IDs 1 and 2, in one category, which alone is selected, one
\* run; comments are only edited and posts deleted without edit.  The
\* remote fails up to max_retries calls, all on item 1, which is enough to
\* exhaust the retries of one action.
InitLive ==
    /\ \E t \in Categories, dr \in BOOLEAN :
          /\ listing = [c \in Categories |-> IF c = t THEN {1, 2} ELSE {}]
          /\ \E m \in (IF t \in ContentCats THEN {ModeLive(t)} ELSE {"off"}) :
                preferences = Prefs(dr, TypeMode(t, m), OnlyLate(t), NoFilters)
          /\ \E s \in (IF t = "posts" THEN BOOLEAN ELSE {FALSE}) :
                is_self = [i \in Items |-> s]
    /\ NoKarma
    /\ ids_file = {}
    /\ runs = 1
    /\ faults = max_retries
    /\ InitRest

\* The steps of the coordinating thread.
CoordNext ==
    \/ StartRun \/ FetchContent \/ LoopHead \/ NextBatch \/ Collect \/ Drain
    \/ SaveAfterBatch \/ Cooldown \/ FetchLate \/ Finally \/ CallerCheck
    \/ CallerPause

\* Every thread keeps being scheduled, every remote call returns and every
\* sleep ends; the signal and a new start of the program are up to the user.
Fairness ==
    /\ WF_vars(CoordNext)
    /\ \A w \in Workers : WF_vars(Worker(w))

SpecLive == InitLive /\ [][Next]_vars /\ Fairness

Texts == {<<"[deleted]">>, <<"[removed]">>, <<"[deleted]", "x">>, <<"x">>}

\* An account with removed content, one run that is not a dry run: post 1
\* and comment 2, each with any of four texts; comment 2 is also saved, and
\* the saved category is selected or not.  The remote fails one call at
\* most.
InitSentinel ==
    /\ listing = [c \in Categories |->
                     CASE c = "posts" -> {1}
                       [] c \in {"comments", "saved"} -> {2}
                       [] OTHER -> {}]
    /\ \E sv \in BOOLEAN :
          preferences = Prefs(FALSE, [c \in ContentCats |-> ModeMulti(c)],
                              [c \in LateCats |-> sv /\ c = "saved"], NoFilters)
    /\ is_self = [i \in Items |-> i % 2 = 1]
    /\ score = [i \in Items |-> 1]
    /\ subreddit = [i \in Items |-> <<"a", "b">>]
    /\ \E tp \in Texts, tc \in Texts :
          body = [i \in Items |-> IF i % 2 = 1 THEN tp ELSE tc]
    /\ ids_file = {}
    /\ runs = 1
    /\ faults = 1
    /\ InitRest

SpecSentinel == InitSentinel /\ [][Next]_vars

\* -------------------------------------------------------------------- claims
Mutations == {"edit", "delete", "unsave", "clear_vote", "unhide"}

Frames == {Result(wk[w]) : w \in {v \in Workers : wk[v].pc # "idle"}} \cup futs

\* Every listed item passes the ledger check of a run that started with
\* ledger l.
AllPass(l) == \A c \in Categories : listing[c] \cap l = {}

\* C1: in a dry run no remote mutation call (edit, delete, unsave,
\* clear_vote, unhide) is ever issued, whatever the remote answers and
\* whenever the flag is set.
C1_DryRunIssuesNoMutation ==
    preferences.dry_run =>
        /\ \A c \in issued : c[2] \notin Mutations
        /\ \A f \in Frames : ~f.mutd

\* C1's case: a dry run has simulated an action on an item.
C1_Witness == preferences.dry_run /\ \E f \in futs : f.d + f.e > 0

\* C2: a dry run over items that all pass the filters returns the counts of
\* a real run over the same items in which every remote call succeeds.  The
\* two runs are a dry run and the real run of the next start of the program.
C2_DryCountsEqualRealCounts ==
    ( /\ opc = "returned"
      /\ prev.run = 1 /\ prev.dry /\ prev.clean /\ ~prev.cancelled
      /\ ~preferences.dry_run /\ clean /\ ~interrupt_flag
      /\ AllPass(prev.start) /\ AllPass(startLedger) )
    => (deleted_counts = prev.deleted /\ edited_counts = prev.edited)

\* C3: a dry run changes neither the in-memory ledger nor the ledger file.
C3_DryRunLeavesLedger ==
    preferences.dry_run => (processed_ids = startLedger /\ ids_file = startLedger)

\* C4: of two real runs in succession over the same listings, the first with
\* every remote call succeeding, the second deletes and edits nothing.
C4_SecondRunCountsZero ==
    ( /\ opc = "returned"
      /\ prev.run >= 1 /\ ~prev.dry /\ prev.clean /\ ~prev.cancelled
      /\ ~preferences.dry_run /\ ~interrupt_flag )
    => ( /\ \A c \in Categories : deleted_counts[c] = 0
         /\ \A c \in ContentCats : edited_counts[c] = 0 )

\* The category's action of a returned call succeeded: its terminal call,
\* or in only-edit mode an edit.
ActionSucceeded(f) ==
    IF f.item_type \in ContentCats /\ only_edit(f.item_type) THEN f.okEdit ELSE f.okTerm

\* C5: in a real run, when process_item returns and its action on the item
\* has succeeded, the item's ID is in the in-memory ledger.
C5_SuccessIsRecorded ==
    ~preferences.dry_run =>
        \A f \in futs : ActionSucceeded(f) => f.item \in processed_ids

\* C6: in a real run, process_item adds an ID to the ledger only when a
\* remote mutation on the item succeeded in that call.
C6_RecordedOnlyAfterSuccess ==
    ~preferences.dry_run =>
        \A f \in futs : f.added => (f.okTerm \/ f.okEdit)

\* C7 as stated: for an item whose ID is in the ledger when process_item is
\* called, no remote call is issued, neither the info fetch nor a mutation.
C7_KnownItemNoRemoteCall ==
    \A f \in Frames : f.known => (~f.fetchd /\ ~f.mutd)

\* C7 as amended: for an item whose ID is in the ledger when process_item is
\* called, no remote mutation call is issued and the counts are zero; the
\* info fetch is issued before the ledger is consulted.
C7_KnownItemNoMutation ==
    /\ \A f \in Frames : f.known => (~f.mutd /\ f.d = 0 /\ f.e = 0)
    /\ \A f \in futs : f.known => f.fetchd

\* C7's case: a call for an item already in the ledger has returned after a
\* successful info fetch.
C7_Witness ==
    \E f \in futs : f.known /\ <<f.item, "fetch">> \in succeeded

\* The categories a worker is processing an item of at this moment.
Running == {wk[w].item_type : w \in {v \in Workers : wk[v].pc # "idle"}}

\* Every selected one of the posts and comments categories has had all its
\* batches run in this run.
ContentFinished == \A t \in ContentCats : Selected(t) => t \in finished

\* C8: in every run no saved, upvoted, downvoted or hidden listing is
\* fetched, and no item of those categories is processed, until every batch
\* of the selected posts and comments categories has finished; and no
\* comment is processed until the batches of the selected posts have.
C8_LateOnlyAfterPostsAndComments ==
    /\ (fetched \cap LateCats # {} \/ Running \cap LateCats # {}) => ContentFinished
    /\ ("comments" \in Running /\ Selected("posts")) => "posts" \in finished

\* C9: a call of process_item that has read the flag as set returns without
\* adding the item's ID to the ledger.
C9_CancelledCallNotRecorded ==
    \A f \in futs : f.obs => ~f.added

\* C10: once a call of process_item has read the flag as set, it issues no
\* further remote mutation call.
C10_NoMutationAfterFlagSeen ==
    \A f \in Frames : ~f.late

\* C11: once the coordinator has read the cancellation flag as set, it begins
\* no new unit of work in that run: it dispatches no further batch to a
\* worker pool and it fetches no further category listing.
C11_NoNewWorkAfterFlagSeen ==
    [][seen => /\ ~(opc = "batch" /\ opc' = "collect")
               /\ fetched' \subseteq fetched]_vars

\* C12: when process_batch has read the flag as set while collecting results,
\* its return does not wait for the batch's running or queued items: the
\* return is possible at once, whatever the workers are doing.
C12_ReturnDoesNotWaitForWorkers ==
    opc = "drain" => ENABLED Drain

\* The items of category c on which the remote call op succeeded in this run.
Succeeded(c, op) == {i \in listing[c] : <<i, op>> \in succeeded}

\* C13: in a run that is not a dry run, a category's deleted count never
\* exceeds the number of its items on which the terminal call succeeded in
\* this run, and its edited count never exceeds the number of its items on
\* which an edit succeeded in only-edit mode; no item's own result counts
\* a call that did not succeed.
C13_CountsNeverExceedSuccesses ==
    (~preferences.dry_run /\ opc # "begin") =>
        /\ \A c \in Categories :
              deleted_counts[c] <= Cardinality(Succeeded(c, TerminalOp(c)))
        /\ \A c \in ContentCats :
              /\ edited_counts[c] <= Cardinality(Succeeded(c, "edit"))
              /\ edited_counts[c] > 0 => only_edit(c)
        /\ \A f \in Frames :
              /\ f.d > 0 => <<f.item, TerminalOp(f.item_type)>> \in succeeded
              /\ f.e > 0 => <<f.item, "edit">> \in succeeded

\* A finished run that is not a dry run in which the one listed item was
\* called and failed, and was not counted.
C13_Witness ==
    /\ ~preferences.dry_run
    /\ opc = "returned"
    /\ \E c \in Categories, i \in Items :
          /\ i \in listing[c]
          /\ Selected(c)
          /\ \E op \in Mutations : <<i, op>> \in issued \ succeeded
          /\ deleted_counts[c] = 0
          /\ c \in ContentCats => edited_counts[c] = 0

\* The remote calls that change an item of category c.
ChangingOps(c) == IF c \in ContentCats THEN {"edit", "delete"} ELSE {TerminalOp(c)}

\* The items of category c that a successful call of this run changed.
Changed(c) == UNION {Succeeded(c, op) : op \in ChangingOps(c)}

\* What the run reports for category c.
Reported(c) == deleted_counts[c] + (IF c \in ContentCats THEN edited_counts[c] ELSE 0)

\* C14: the counts a run returns include every item that the run changed on
\* the remote (deleted, unsaved, vote-cleared, unhidden or edited), also when
\* the run was cancelled or a later step on the item failed.
C14_CountsIncludeEveryChange ==
    (opc = "returned" /\ ~preferences.dry_run) =>
        \A c \in Categories : Reported(c) >= Cardinality(Changed(c))

\* C15: an exception raised while an item is processed (info fetch, filter
\* checks or acting stage) is absorbed by process_item: it never leaves
\* process_batch, so the batch's other items and the later batches are still
\* collected.
C15_ExceptionNeverLeavesBatch ==
    ~Propagating

\* C17: a process_item call whose every mutation call is answered by a
\* retryable API error, and which the flag does not cut short, attempts the
\* action max_retries times, no more and no fewer, whatever the category
\* and mode.
C17_ExactlyMaxRetriesAttempts ==
    /\ \A f \in Frames : (f.allApi /\ ~f.obs) => f.tries <= max_retries
    /\ \A f \in futs : (f.allApi /\ ~f.obs /\ f.tries > 0) => f.tries = max_retries

\* The items on which a remote mutation call was issued in this run.
MutatedItems == {c[1] : c \in {x \in issued : x[2] \in Mutations}}

\* Whether item i of category c is at or above the category's threshold.
AtOrAbove(i, c) == \E k \in preferences.karma_threshold[c] : score[i] >= k

\* C18: with a karma threshold set for comments (posts), a comment (post)
\* whose score is greater than or equal to the threshold, the equal score
\* included, is never put in the working set and never edited or deleted,
\* whether the items come from the live listings or from the export files.
C18_AtOrAboveThresholdPreserved ==
    \A c \in ContentCats : \A i \in listing[c] :
        AtOrAbove(i, c) =>
            /\ i \notin items[c]
            /\ i \notin MutatedItems
            /\ \A f \in Frames : f.item # i

\* A finished run on export files in which an item whose score equals the
\* threshold was left alone while an item below the threshold was deleted.
C18_Witness ==
    /\ opc = "returned"
    /\ preferences.reddit_export_directory
    /\ \E c \in ContentCats : \E i \in listing[c] :
          /\ score[i] \in preferences.karma_threshold[c]
          /\ \A x \in issued : x[1] # i
    /\ \E c \in ContentCats : \E i \in listing[c] :
          /\ preferences.karma_threshold[c] # {}
          /\ ~AtOrAbove(i, c)
          /\ <<i, "delete">> \in succeeded

\* The comments with score 5 while the comment threshold is 10.
Score5Under10 ==
    {i \in listing["comments"] :
        score[i] = 5 /\ preferences.karma_threshold["comments"] = {10}}

\* C19: a comment with score 5 under a comment karma threshold of 10 is
\* skipped: it is neither edited nor deleted.
C19_Score5Under10Skipped ==
    \A i \in Score5Under10 : i \notin MutatedItems

\* C19, as the code has it: once the comments are loaded, a comment with
\* score 5 under a threshold of 10 is in the working set, to be processed;
\* the comments preserved under that threshold are those with score 10 or
\* more.
C19_Score5Under10Processed ==
    "comments" \in fetched =>
        /\ \A i \in Score5Under10 : i \in items["comments"]
        /\ preferences.karma_threshold["comments"] = {10} =>
              \A i \in items["comments"] : score[i] < 10

\* A comment with score 5 under a threshold of 10 was deleted.
C19_Witness ==
    \E i \in Score5Under10 : <<i, "delete">> \in succeeded

\* Whether a name equals an entry of list l when case is ignored.
Listed(n, l) == \E e \in l : lower(n) = lower(e)

\* C20: with a non-empty whitelist no mutation is issued on an item whose
\* subreddit is in it, compared without regard to case; with a non-empty
\* blacklist none is issued on an item whose subreddit is not in it; with
\* neither list set the subreddit check skips no item.
C20_SubredditFilter ==
    /\ preferences.whitelist_subreddits # {} =>
          \A i \in MutatedItems :
              ~Listed(subreddit[i], preferences.whitelist_subreddits)
    /\ (preferences.whitelist_subreddits = {}
          /\ preferences.blacklist_subreddits # {}) =>
          \A i \in MutatedItems :
              Listed(subreddit[i], preferences.blacklist_subreddits)
    /\ (preferences.whitelist_subreddits = {}
          /\ preferences.blacklist_subreddits = {}) =>
          \A f \in Frames : ~f.skipSub

\* With a whitelist whose entry differs in case from the display name of an
\* item's subreddit, that item was skipped by the subreddit check and an
\* item of another subreddit was deleted.
C20_Witness ==
    /\ preferences.whitelist_subreddits # {}
    /\ \E f \in futs :
          /\ f.skipSub
          /\ subreddit[f.item] \notin preferences.whitelist_subreddits
          /\ Listed(subreddit[f.item], preferences.whitelist_subreddits)
    /\ \E i \in MutatedItems : <<i, "delete">> \in succeeded

\* The call of delete_all_content has ended: it returned, or an exception of
\* a filter check left it.
Ended == opc \in {"returned", "exit"}

\* C16: with every remote call returning, with success or with an error, a
\* call of delete_all_content eventually ends; an item whose retries are
\* exhausted is given up with a pair of counts, and neither the batch nor
\* the run is aborted for it.
C16_RunTerminates ==
    /\ (opc = "fetch") ~> Ended
    /\ [](\A f \in futs : (f.allApi /\ f.tries = max_retries) => ~f.exc)

\* A batch all of whose futures were collected, in which one item was given
\* up after max_retries failed attempts and the other item's terminal call
\* succeeded.
C16_Witness ==
    /\ opc = "save"
    /\ \E f \in futs : f.allApi /\ f.tries = max_retries /\ f.d = 0
    /\ \E f \in futs : f.okTerm

\* The items whose body (a comment) or title (a post) is a sentinel.
ShowsSentinel == {i \in Items : body[i] \in {<<"[deleted]">>, <<"[removed]">>}}

\* C21: process_item issues no remote mutation on an item, comment or post,
\* whose body or title already shows the deleted or removed sentinel, and
\* returns zero counts for it.
C21_SentinelItemUntouched ==
    /\ \A i \in ShowsSentinel : i \notin MutatedItems
    /\ \A f \in Frames : f.item \in ShowsSentinel => f.d = 0 /\ f.e = 0

\* C22: an item that several sort-order listings return is in its
\* category's working set once: in one run each ID of a category is handed
\* to process_item at most once, and exactly once when the category's
\* batches were finished without cancellation.
C22_DispatchedAtMostOnce ==
    \A c \in Categories :
        /\ \A i \in Items : batchlog.times[c][i] <= 1
        /\ \A i \in Items : batchlog.times[c][i] > 0 => i \in items[c]
        /\ (c \in finished /\ ~interrupt_flag) =>
              \A i \in items[c] : batchlog.times[c][i] = 1

\* The posts, shown by all four sort orders, were each handed over once,
\* in two batches.
C22_Witness ==
    /\ "posts" \in finished
    /\ ~interrupt_flag
    /\ Cardinality(items["posts"]) > BatchSize
    /\ \A s \in SortTypes : Sorted("posts", s) = items["posts"]

\* n / size rounded up.
Ceil(n, size) == (n + size - 1) \div size

\* No item of category c's working set is in the ledger when its turn
\* comes: none was there when the run started and none is listed in another
\* category as well.
PassLedger(c) ==
    /\ items[c] \cap startLedger = {}
    /\ \A d \in Categories \ {c} : items[c] \cap listing[d] = {}

\* C23: without cancellation a working set of n items is processed in
\* ceil(n / size) batches, each but the last of exactly `size` items, the
\* last of 1 to `size`, every item in exactly one batch; when all items
\* pass the filters and succeed, the deleted count is n and every ID is in
\* the ledger.  With 120 items and batches of 50 that is 50, 50 and 20.
C23_BatchPartition ==
    /\ \A c \in finished :
          LET n == Cardinality(items[c])
              sizes == batchlog.sizes[c]
          IN  ~interrupt_flag =>
                 /\ Len(sizes) = Ceil(n, BatchSize)
                 /\ \A k \in 1..(Len(sizes) - 1) : sizes[k] = BatchSize
                 /\ Len(sizes) > 0 => sizes[Len(sizes)] \in 1..BatchSize
                 /\ \A i \in items[c] : batchlog.times[c][i] = 1
                 /\ (clean /\ ~preferences.dry_run /\ PassLedger(c)) =>
                       /\ deleted_counts[c] = n
                       /\ items[c] \subseteq processed_ids
    /\ BatchSizes(120, 50) = <<50, 50, 20>>

\* A clean run that is not a dry run finished a category of more items than
\* one batch holds, in a full batch and a smaller last one.
C23_Witness ==
    \E c \in finished :
        /\ ~interrupt_flag /\ clean /\ ~preferences.dry_run
        /\ Len(batchlog.sizes[c]) > 1
        /\ batchlog.sizes[c][Len(batchlog.sizes[c])] < BatchSize
        /\ deleted_counts[c] = Cardinality(items[c])

\* C24: at every moment the items in the workers' hands all belong to the
\* current batch of the current category and number at most the pool width;
\* outside process_batch (between batches, between categories, after a
\* cancelled batch) no item is queued or in a worker's hands.
Busy == {w \in Workers : wk[w].pc # "idle"}

InProcessBatch == opc \in {"collect", "drain", "drainRaise"}

C24_OneBatchAtATime ==
    /\ \A w \in Busy : wk[w].item \in batch /\ wk[w].item_type = Order[ci]
    /\ queue \subseteq batch
    /\ Cardinality(Busy) <= max_workers
    /\ Cardinality(Busy) + Cardinality(queue) <= Cardinality(batch)
    /\ ~InProcessBatch => Busy = {} /\ queue = {}

\* A later batch of a category is being worked on after the flag was seen
\* during an earlier one.
C24_Witness ==
    /\ interrupt_flag /\ seen
    /\ opc = "collect"
    /\ Len(batchlog.sizes[Order[ci]]) > 1
    /\ Busy # {}

\* Item i of content category t is handled by the edit-then-delete branch
\* of a real run: a comment or a text post, the category's mode "delete".
EditThenDelete(i, t) ==
    /\ ~preferences.dry_run
    /\ preferences.mode[t] = "delete"
    /\ i \in listing[t]
    /\ t = "comments" \/ is_self[i]

\* C25: in edit-then-delete mode of a real run, delete is issued on a
\* comment or text post only after an edit call on it succeeded in the same
\* run; while no edit call on the item has succeeded no delete is issued on it, its
\* results count it neither as deleted nor as edited, and once the run has
\* started a category of such items alone has both counts at zero.
C25_DeleteOnlyAfterEdit ==
    \A t \in ContentCats :
        /\ \A i \in Items : EditThenDelete(i, t) =>
              /\ <<i, "delete">> \in issued => <<i, "edit">> \in succeeded
              /\ <<i, "edit">> \notin succeeded =>
                    \A f \in Frames : f.item = i => f.d = 0 /\ f.e = 0
        /\ (/\ opc # "begin"
            /\ \A i \in listing[t] :
                  EditThenDelete(i, t) /\ <<i, "edit">> \notin succeeded) =>
              deleted_counts[t] = 0 /\ edited_counts[t] = 0

\* An edit-then-delete category has finished with every edit call on its
\* item failed.
C25_Witness ==
    \E t \in ContentCats \cap finished :
        /\ listing[t] # {}
        /\ \A i \in listing[t] :
              /\ EditThenDelete(i, t)
              /\ <<i, "edit">> \in issued
              /\ <<i, "edit">> \notin succeeded
              /\ <<i, "delete">> \notin issued
        /\ deleted_counts[t] = 0

\* The link posts: the listed posts that are no text posts.
LinkPosts == {i \in listing["posts"] : ~is_self[i]}

\* C26: no edit call is ever issued on a link post.  In only-edit mode no
\* delete is issued on it either, its results count nothing, the run's
\* posts counts stay zero when all posts are link posts, and its ID does
\* not enter the ledger.  In the other two post modes no call but the
\* fetch and the delete is issued on it, a result whose delete succeeded
\* counts one deletion and no edit, and a clean uncancelled real run counts
\* each link post that passes the ledger check once.
C26_LinkPost ==
    \A i \in LinkPosts :
        /\ <<i, "edit">> \notin issued
        /\ only_edit("posts") =>
              /\ <<i, "delete">> \notin issued
              /\ \A f \in Frames : f.item = i => f.d = 0 /\ f.e = 0 /\ ~f.added
              /\ i \in processed_ids => i \in startLedger
              /\ (opc # "begin" /\ listing["posts"] = LinkPosts) =>
                    deleted_counts["posts"] = 0 /\ edited_counts["posts"] = 0
        /\ (Selected("posts") /\ ~only_edit("posts") /\ ~preferences.dry_run) =>
              /\ \A c \in issued : c[1] = i => c[2] \in {"fetch", "delete"}
              /\ \A f \in Frames :
                    (f.item = i /\ f.item_type = "posts" /\ f.okTerm) =>
                        f.d = 1 /\ f.e = 0 /\ f.added
              /\ ("posts" \in finished /\ clean /\ ~interrupt_flag
                      /\ listing["posts"] = LinkPosts /\ PassLedger("posts")) =>
                    /\ deleted_counts["posts"] = Cardinality(LinkPosts)
                    /\ edited_counts["posts"] = 0
                    /\ LinkPosts \subseteq processed_ids

\* A link post of an edit-then-delete run was deleted and counted.
C26_Witness ==
    /\ "posts" \in finished /\ clean /\ ~interrupt_flag
    /\ ~preferences.dry_run /\ preferences.mode["posts"] = "delete"
    /\ \E i \in LinkPosts :
          <<i, "delete">> \in succeeded /\ deleted_counts["posts"] = 1

\* The votes categories.
Votes == {"upvotes", "downvotes"}

\* C27: when clear_vote on an upvoted or downvoted item is answered by
\* HTTP 400, process_item returns with the item counted as one deletion.
C27_Http400CountedAsOne ==
    \A f \in futs : (f.item_type \in Votes /\ f.http400) => f.d = 1

\* delete_all_content is not running: it has returned or an exception has
\* left it, and the next run has not started.
Exited == opc \in {"returned", "pause", "again", "exit"}

\* C28: whenever delete_all_content has exited, by its return, after a
\* cancellation or by an exception, the ledger file holds every ID of the
\* in-memory ledger, and no worker is left that could add one.
C28_LedgerFlushedOnExit ==
    Exited => processed_ids \subseteq ids_file /\ Busy = {} /\ queue = {}

\* A run has exited whose batch was cancelled before its result was
\* collected, hence before the save that follows a batch: the item is in
\* the ledger and not in the counts.
C28_Witness ==
    /\ Exited /\ interrupt_flag
    /\ \E c \in LateCats :
          /\ listing[c] \cap (processed_ids \ startLedger) # {}
          /\ deleted_counts[c] = 0

\* The last run reported a change: a non-zero deleted count or a non-zero
\* edited count in some category.
ReportedChange ==
    \/ \E c \in Categories : deleted_counts[c] # 0
    \/ \E c \in ContentCats : edited_counts[c] # 0

\* C29: after a run that returned with the flag not set, the caller goes on
\* to another run exactly when the run reported a non-zero deleted count or
\* a non-zero edited count, and stops otherwise.
C29_LoopsWhileAnythingChanged ==
    [][(opc = "returned" /\ ~interrupt_flag /\ opc' # opc) =>
          (opc' = "pause" <=> ReportedChange)]_vars

\* C30: whenever wait_if_needed returns in a thread, the clock is at or
\* after rate_limited_until as it stands at that moment, also when another
\* thread set or extended the limit while the caller slept.
C30_ReturnRespectsLimit ==
    \A t \in LimiterThreads : ~limiter.th[t].early

\* Worker w is inside edit_item_multiple_times.
InEdit(r) == r.pc \in {"edit", "editCall", "editWait"}

\* This step takes worker w out of edit_item_multiple_times.
EditReturns(w) == InEdit(wk[w]) /\ ~InEdit(wk'[w])

\* edit_item_multiple_times returned True to process_item in this step, as
\* what process_item does with it shows: in only-edit mode the item's future
\* completes with edited_count 1, in edit-then-delete mode the delete call
\* is next.
ReturnedTrue(w) ==
    IF only_edit(wk[w].item_type)
    THEN \E f \in futs' \ futs : f.item = wk[w].item /\ f.e = 1
    ELSE wk'[w].pc = "act"

\* C31: edit_item_multiple_times returns True if and only if an edit call
\* of that call succeeded (successfully_edited), whatever the other passes
\* met; and it makes at most edit_count successful passes.
C31_TrueIffAnEditSucceeded ==
    /\ [][\A w \in Workers : EditReturns(w) => (ReturnedTrue(w) <=> wk[w].edited)]_vars
    /\ [](\A w \in Workers : wk[w].pass <= edit_count)

\* C32: once an edit of an item was answered by the permanent condition
\* ("Your post isn't accessible."), the process_item call issues no further
\* edit call on the item.
C32_NoEditAfterNotAccessible ==
    [][\A w \in Workers :
          (wk[w].gone /\ wk[w].pc = "editCall") => wk'[w] = wk[w]]_vars

\* _handle_ratelimit_sleep has returned with the flag set.
BackoffFlagged ==
    sleeper.pc = "done" /\ sleeper.kind = "backoff" /\ sleeper.flagged

C34_EveryWaitPolls ==
    sleeper.pc = "asleep" => sleeper.nap <= Poll

AboutToSave == opc \in {"save", "finally", "finallyRaise"}

\* C36: the ledger file changes only in a step of the coordinating thread
\* that calls save_processed_ids, and whenever that call is about to be
\* made no worker is running process_item and no item waits in the pool.
C36_SaveOnlyWhenWorkersDone ==
    /\ [](AboutToSave => Busy = {} /\ queue = {})
    /\ [][ids_file' # ids_file => AboutToSave /\ wk' = wk]_vars

\* The end-of-run flush follows a cancelled batch whose workers added IDs
\* that no save after a batch has written.
C36_Witness ==
    /\ opc = "finally" /\ interrupt_flag
    /\ processed_ids \ ids_file # {}

\* C37: with default_delay > 0 and no rate limit ever set, any two returns
\* of wait_if_needed, in whatever threads, are at least default_delay apart.
C37_ReturnsSpacedByDelay ==
    (limiter.default_delay > 0 /\ limiter.rate_limited_until = 0) => ~limiter.close

\* C38: a process_item call on an item whose ID was in the ledger when the
\* call began, whatever category recorded the ID, issues no mutation and
\* counts nothing; so an item recorded as a post or comment is not unsaved,
\* vote-cleared or unhidden afterwards.
C38_LedgerKeyedByIdAlone ==
    \A f \in Frames : f.known => ~f.mutd /\ f.d = 0 /\ f.e = 0 /\ ~f.added

\* The saved pass has skipped an item that this run recorded as a post.
C38_Witness ==
    \E f \in futs :
        /\ f.item_type = "saved" /\ f.known /\ f.fetchd
        /\ f.item \in listing["posts"]
        /\ f.item \in processed_ids \ startLedger
        /\ <<f.item, "delete">> \in succeeded
        /\ <<f.item, "unsave">> \notin issued

\* C39: within one process_item call, once the terminal call (delete,
\* unsave, clear_vote, unhide) has succeeded, the call issues no further
\* remote mutation on the item.
C39_NoCallAfterTerminalSuccess ==
    [][\A w \in Workers :
          (wk[w].okTerm /\ wk[w].pc \in {"act", "editCall"}) => wk'[w] = wk[w]]_vars

\* The run that has just returned changed something that the next run
\* will find changed: it added an ID to the ledger, or a remote mutation of
\* it succeeded.
Progressed ==
    \/ processed_ids # startLedger
    \/ \E c \in succeeded : c[2] \in Mutations

\* C40: the caller's loop of runs ends of itself.  Its runs are finitely
\* many because each run after which the caller goes on has left fewer
\* items to process: a run that changed neither the remote nor the ledger
\* and is followed by another would be repeated for ever, the flag not set.
C40_LoopGoesOnOnlyAfterProgress ==
    [][(opc = "returned" /\ opc' = "pause") => Progressed]_vars

====
